---- MODULE Spec2Model ----
(***************************************************************************)
(* A model of backend/server.py: the request handlers of the persona chat  *)
(* backend over its document store.                                        *)
(*                                                                         *)
(* Every handler is an asyncio coroutine.  The event loop runs one         *)
(* coroutine at a time and switches only at an await, so a handler is a    *)
(* sequence of atomic steps, one per awaited operation (a store operation  *)
(* or the model call).  The synchronous code that follows an await up to   *)
(* the next one runs in the step of the operation it follows;             *)
(* the code before the first await runs in the step that starts the        *)
(* request.  Requests in flight are interleaved freely between steps.      *)
(*                                                                         *)
(* uuid4() is a counter that never repeats.  datetime.now() is a clock     *)
(* that advances between any two reads (the reads are separated by at      *)
(* least one store round trip).                                            *)
(***************************************************************************)
EXTENDS Integers, Sequences, FiniteSets, TLC

\* ---------------------------------------------------------------- bounds
\* Requests that can be in flight at the same time.
NProcs == 2
\* Requests started in one run.
MaxReqs == 2

\* ------------------------------------------------------ program constants
\* to_list(1000) of get_messages and get_all_chats.
ListCap == 1000
\* .limit(10) of the history query.
HistoryLimit == 10
\* chat_history[-6:] of the prompt.
ContextLimit == 6
ADMIN_USERNAME == "admin"
ADMIN_PASSWORD == "sebastian_admin"
FALLBACK == "*si inchina con grazia* Mi scuso profondamente"
IMAGE_PLACEHOLDER == "Immagine condivisa"

Procs == 1..NProcs

\* ------------------------------------------------------------- inputs
Usernames == {"alice", ADMIN_USERNAME}
Passwords == {"pw1", ADMIN_PASSWORD}
Contents == {"hi"}
Captions == {"", "look"}
\* A MIME type and a file name are strings; a string is its sequence of
\* tokens here, so that startswith and split act on something.
MimeTypes == {<<"image", "/", "png">>, <<"text", "/", "plain">>}
Filenames == {<<"pic", ".", "png">>, <<"pic">>}
\* What the hosted model answers when the call succeeds.
AI_TEXT == "Certamente, mio signore"
Outcomes == {"ok", "error"}

None == [none |-> TRUE]

VARIABLES
    users,      \* db.users: the User documents, in insertion order
    chats,      \* db.chats: the Chat documents, in insertion order
    messages,   \* db.messages: the Message documents, in insertion order
    files,      \* the names of the files in UPLOADS_DIR
    clock,      \* the next value datetime.now() returns
    uuid,       \* the last value uuid4() returned
    toggled,    \* bookkeeping: the chat ids of the completed toggle requests
    req,        \* per request slot: the handler's position and locals
    nreq        \* requests started so far

vars == <<users, chats, messages, files, toggled, clock, uuid, req, nreq>>

\* ------------------------------------------------------------ helpers
Min(S) == CHOOSE x \in S : \A y \in S : x <= y

Take(s, n) == IF Len(s) <= n THEN s ELSE SubSeq(s, 1, n)

Reverse(s) == [i \in 1..Len(s) |-> s[Len(s) + 1 - i]]

StartsWith(s, prefix) ==
    /\ Len(s) >= Len(prefix)
    /\ SubSeq(s, 1, Len(prefix)) = prefix

\* The positions of the documents of coll whose field has the value: the
\* filter {field: value} of find_one, find and update_one.
Matching(coll, field, value) == {i \in 1..Len(coll) : coll[i][field] = value}

\* find_one(filter): the first matching document, or None.
FindOne(coll, field, value) ==
    LET hits == Matching(coll, field, value)
    IN IF hits = {} THEN None ELSE coll[Min(hits)]

\* ------------------------------------------------------------- models
hash_password(password) == <<"sha256", password>>

verify_password(password, hashed) == hash_password(password) = hashed

create_token(user_id, is_admin) == [user_id |-> user_id, is_admin |-> is_admin]

User(id, username, password_hash, is_admin) ==
    [id |-> id, username |-> username, password_hash |-> password_hash,
     is_admin |-> is_admin]

Chat(id, user_id, username, now) ==
    [id |-> id, user_id |-> user_id, username |-> username,
     created_at |-> now, last_message_at |-> now, admin_active |-> FALSE]

Message(chat_id, sender, content, message_type, image_url, now, is_admin_response) ==
    [chat_id |-> chat_id, sender |-> sender, content |-> content,
     message_type |-> message_type, image_url |-> image_url,
     timestamp |-> now, is_admin_response |-> is_admin_response]

\* ---------------------------------------------------- store operations
RECURSIVE InsertByKey(_, _, _, _)
\* s is sorted by the field key (ascending when asc, else descending); x
\* goes after the elements that do not sort after it.
InsertByKey(s, x, key, asc) ==
    IF s = <<>> THEN <<x>>
    ELSE IF (asc /\ x[key] < Head(s)[key]) \/ (~asc /\ x[key] > Head(s)[key])
         THEN <<x>> \o s
         ELSE <<Head(s)>> \o InsertByKey(Tail(s), x, key, asc)

RECURSIVE SortByKey(_, _, _)
\* cursor.sort(key, 1 or -1)
SortByKey(s, key, asc) ==
    IF s = <<>> THEN <<>>
    ELSE InsertByKey(SortByKey(SubSeq(s, 1, Len(s) - 1), key, asc),
                     s[Len(s)], key, asc)

RECURSIVE InOrder(_, _)
\* The documents of coll at the positions hits, in the store's natural
\* (insertion) order.
InOrder(coll, hits) ==
    IF hits = {} THEN <<>>
    ELSE <<coll[Min(hits)]>> \o InOrder(coll, hits \ {Min(hits)})

\* find(filter)
Find(coll, field, value) == InOrder(coll, Matching(coll, field, value))

\* update_one(filter, {"$set": {key: new}}): the first match is rewritten,
\* if there is one
UpdateOne(coll, field, value, key, new) ==
    LET hits == Matching(coll, field, value)
    IN IF hits = {} THEN coll
       ELSE [i \in 1..Len(coll) |->
               IF i = Min(hits) THEN [coll[i] EXCEPT ![key] = new] ELSE coll[i]]

\* ------------------------------------------------------ request slots
NoToken == [user_id |-> 0, is_admin |-> FALSE]

Idle ==
    [op |-> "none", pc |-> "idle", user |-> NoToken, chat_id |-> 0,
     username |-> "", password |-> "", content |-> "",
     status |-> 0, ret |-> None,
     obj |-> None,             \* the document built and not yet inserted
     chat |-> None,            \* the Chat document the handler read
     now |-> 0,                \* a datetime.now() read and not yet stored
     image_url |-> <<>>,       \* None
     content_type |-> <<>>,    \* the declared MIME type of an upload
     chat_history |-> <<>>,
     \* bookkeeping of the run, read by the properties only
     appended |-> <<>>,        \* positions in db.messages this request inserted
     created |-> 0,            \* id of the User or Chat this request inserted
     calls |-> 0,              \* calls of the hosted model
     failed |-> FALSE,         \* a call of the hosted model failed
     active_all |-> FALSE,     \* the chat was Human-Operated all along
     auto_start |-> FALSE,     \* the chat was Automatic at the start
     solo |-> FALSE,           \* no other request on the chat since the start
     pre |-> 0]                \* messages of the chat at the start

InFlight(p) == req[p].pc \notin {"idle", "done"}

Free(p) == ~InFlight(p)

\* A request takes the lowest free slot.
CanStart(p) ==
    /\ nreq < MaxReqs
    /\ Free(p)
    /\ \A q \in Procs : q < p => InFlight(q)

\* The handler returns (status 200) or raises HTTPException(status).
Finish(r, status, ret) ==
    [r EXCEPT !.pc = "done", !.status = status, !.ret = ret,
              !.obj = None, !.chat = None, !.now = 0, !.chat_history = <<>>]

\* ------------------------------------------------------------- register
register_start(p) ==
    /\ CanStart(p)
    /\ \E username \in Usernames, password \in Passwords :
          req' = [req EXCEPT ![p] =
                    [Idle EXCEPT !.op = "register", !.pc = "find_user",
                                 !.username = username, !.password = password]]
    /\ nreq' = nreq + 1
    /\ UNCHANGED <<users, chats, messages, files, toggled, clock, uuid>>

register_find(p) ==
    /\ req[p].op = "register" /\ req[p].pc = "find_user"
    /\ LET r == req[p]
           existing_user == FindOne(users, "username", r.username)
       IN IF existing_user # None
          THEN /\ req' = [req EXCEPT ![p] = Finish(r, 400, None)]
               /\ UNCHANGED uuid
          ELSE /\ uuid' = uuid + 1
               /\ req' = [req EXCEPT ![p].pc = "insert_user",
                                     ![p].obj = User(uuid', r.username,
                                                     hash_password(r.password), FALSE)]
    /\ UNCHANGED <<users, chats, messages, files, toggled, clock, nreq>>

register_insert(p) ==
    /\ req[p].op = "register" /\ req[p].pc = "insert_user"
    /\ LET r == req[p]
           user_obj == r.obj
       IN /\ users' = Append(users, user_obj)
          /\ req' = [req EXCEPT ![p] =
                       Finish([r EXCEPT !.created = user_obj.id], 200,
                              create_token(user_obj.id, user_obj.is_admin))]
    /\ UNCHANGED <<chats, messages, files, toggled, clock, uuid, nreq>>

\* ---------------------------------------------------------------- login
login_start(p) ==
    /\ CanStart(p)
    /\ \E username \in Usernames, password \in Passwords :
          req' = [req EXCEPT ![p] =
                    [Idle EXCEPT !.op = "login", !.pc = "find_user",
                                 !.username = username, !.password = password]]
    /\ nreq' = nreq + 1
    /\ UNCHANGED <<users, chats, messages, files, toggled, clock, uuid>>

login_find(p) ==
    /\ req[p].op = "login" /\ req[p].pc = "find_user"
    /\ LET r == req[p]
           db_user == FindOne(users, "username", r.username)
       IN IF db_user = None \/ ~verify_password(r.password, db_user.password_hash)
          THEN req' = [req EXCEPT ![p] = Finish(r, 401, None)]
          ELSE req' = [req EXCEPT ![p] =
                         Finish(r, 200, create_token(db_user.id, db_user.is_admin))]
    /\ UNCHANGED <<users, chats, messages, files, toggled, clock, uuid, nreq>>

\* ---------------------------------------------------------- admin_login
\* The admin check on the username alone.
IsAdminCredentials_NameOnly(username, password) == username = ADMIN_USERNAME

\* user.username == "admin" and user.password == "sebastian_admin"
IsAdminCredentials(username, password) ==
    username = ADMIN_USERNAME /\ password = ADMIN_PASSWORD

admin_login_start(p) ==
    /\ CanStart(p)
    /\ \E username \in Usernames, password \in Passwords :
          LET r == [Idle EXCEPT !.op = "admin_login", !.pc = "find_user",
                                !.username = username, !.password = password]
          IN IF IsAdminCredentials(username, password)
             THEN req' = [req EXCEPT ![p] = r]
             ELSE req' = [req EXCEPT ![p] = Finish(r, 401, None)]
    /\ nreq' = nreq + 1
    /\ UNCHANGED <<users, chats, messages, files, toggled, clock, uuid>>

admin_login_find(p) ==
    /\ req[p].op = "admin_login" /\ req[p].pc = "find_user"
    /\ LET r == req[p]
           admin_user == FindOne(users, "username", ADMIN_USERNAME)
       IN IF admin_user # None
          THEN /\ req' = [req EXCEPT ![p] =
                            Finish(r, 200, create_token(admin_user.id, TRUE))]
               /\ UNCHANGED uuid
          ELSE /\ uuid' = uuid + 1
               /\ req' = [req EXCEPT ![p].pc = "insert_user",
                                     ![p].obj = User(uuid', ADMIN_USERNAME,
                                                     hash_password(ADMIN_PASSWORD), TRUE)]
    /\ UNCHANGED <<users, chats, messages, files, toggled, clock, nreq>>

admin_login_insert(p) ==
    /\ req[p].op = "admin_login" /\ req[p].pc = "insert_user"
    /\ LET r == req[p]
           admin_obj == r.obj
       IN /\ users' = Append(users, admin_obj)
          /\ req' = [req EXCEPT ![p] =
                       Finish([r EXCEPT !.created = admin_obj.id], 200,
                              create_token(admin_obj.id, TRUE))]
    /\ UNCHANGED <<chats, messages, files, toggled, clock, uuid, nreq>>

\* ------------------------------------------------- requests on a chat
ChatOps == {"get_messages", "send_message", "upload_image", "admin_respond",
            "toggle_admin_active"}

OnChat(r, chat_id) == r.op \in ChatOps /\ r.chat_id = chat_id

ChatById(chat_id) == FindOne(chats, "id", chat_id)

MessagesOf(chat_id) == Find(messages, "chat_id", chat_id)

\* The bearer tokens the credential store has issued to the stored users.
Tokens == {create_token(users[i].id, users[i].is_admin) : i \in 1..Len(users)}

\* The ids of the stored chats, and one id no chat has.
ChatIdInputs == {chats[i].id : i \in 1..Len(chats)} \cup {0}

\* A request r arrives in slot p: r learns how its chat stands, and the
\* requests that were on the same chat are no longer alone on it.
Begin(p, r) ==
    LET chat == ChatById(r.chat_id)
        on == r.op \in ChatOps
        watched == r.op \in {"send_message", "upload_image"}
        r1 == IF ~watched THEN r
              ELSE [r EXCEPT
                      !.active_all = chat # None /\ chat.admin_active,
                      !.auto_start = chat # None /\ ~chat.admin_active,
                      !.solo = \A q \in Procs \ {p} :
                                  ~(InFlight(q) /\ OnChat(req[q], r.chat_id)),
                      !.pre = Len(MessagesOf(r.chat_id))]
    IN /\ req' = [q \in Procs |->
                    IF q = p THEN r1
                    ELSE IF on /\ OnChat(req[q], r.chat_id)
                         THEN [req[q] EXCEPT !.solo = FALSE]
                         ELSE req[q]]
       /\ nreq' = nreq + 1

\* --------------------------------------------------- get_or_create_chat
get_or_create_chat_start(p) ==
    /\ CanStart(p)
    /\ \E user \in Tokens :
          Begin(p, [Idle EXCEPT !.op = "get_or_create_chat", !.pc = "find_chat",
                                !.user = user])
    /\ UNCHANGED <<users, chats, messages, files, toggled, clock, uuid>>

get_or_create_chat_find(p) ==
    /\ req[p].op = "get_or_create_chat" /\ req[p].pc = "find_chat"
    /\ LET r == req[p]
           existing_chat == FindOne(chats, "user_id", r.user.user_id)
       IN IF existing_chat # None
          THEN req' = [req EXCEPT ![p] = Finish(r, 200, existing_chat)]
          ELSE req' = [req EXCEPT ![p].pc = "find_user"]
    /\ UNCHANGED <<users, chats, messages, files, toggled, clock, uuid, nreq>>

get_or_create_chat_user(p) ==
    /\ req[p].op = "get_or_create_chat" /\ req[p].pc = "find_user"
    /\ LET r == req[p]
           user_data == FindOne(users, "id", r.user.user_id)
       IN IF user_data = None
          THEN /\ req' = [req EXCEPT ![p] = Finish(r, 500, None)]
               /\ UNCHANGED <<clock, uuid>>
          ELSE /\ uuid' = uuid + 1
               /\ clock' = clock + 1
               /\ req' = [req EXCEPT ![p].pc = "insert_chat",
                                     ![p].obj = Chat(uuid', r.user.user_id,
                                                     user_data.username, clock)]
    /\ UNCHANGED <<users, chats, messages, files, toggled, nreq>>

get_or_create_chat_insert(p) ==
    /\ req[p].op = "get_or_create_chat" /\ req[p].pc = "insert_chat"
    /\ LET r == req[p]
           chat_obj == r.obj
       IN /\ chats' = Append(chats, chat_obj)
          /\ req' = [req EXCEPT ![p] =
                       Finish([r EXCEPT !.created = chat_obj.id], 200, chat_obj)]
    /\ UNCHANGED <<users, messages, files, toggled, clock, uuid, nreq>>

\* ---------------------------------------------------------- get_messages
\* get_messages without the sort: the store's natural order.
get_messages_Unsorted(chat_id) == Take(MessagesOf(chat_id), ListCap)

\* db.messages.find({"chat_id": chat_id}).sort("timestamp", 1).to_list(1000)
get_messages(chat_id) ==
    Take(SortByKey(MessagesOf(chat_id), "timestamp", TRUE), ListCap)

get_messages_start(p) ==
    /\ CanStart(p)
    /\ \E user \in Tokens, chat_id \in ChatIdInputs :
          Begin(p, [Idle EXCEPT !.op = "get_messages", !.pc = "find_messages",
                                !.user = user, !.chat_id = chat_id])
    /\ UNCHANGED <<users, chats, messages, files, toggled, clock, uuid>>

get_messages_find(p) ==
    /\ req[p].op = "get_messages" /\ req[p].pc = "find_messages"
    /\ req' = [req EXCEPT ![p] =
                 Finish(req[p], 200, [items |-> get_messages(req[p].chat_id)])]
    /\ UNCHANGED <<users, chats, messages, files, toggled, clock, uuid, nreq>>

\* --------------------------------------------- the persona generator
\* The generator without its except clause: the error text gets out.
get_sebastian_ai_response_Unguarded(message, chat_history, image_url, outcome) ==
    IF outcome = "ok" THEN AI_TEXT ELSE "Error getting AI response"

\* The prompt goes to the hosted model, whose answer or failure is not
\* the program's to decide: outcome is "ok" or "error".
get_sebastian_ai_response(message, chat_history, image_url, outcome) ==
    IF outcome = "ok" THEN AI_TEXT ELSE FALLBACK

\* The handoff test left out: the persona always answers.
ShouldRespond_Always(chat) == TRUE

\* The handoff test inverted.
ShouldRespond_Inverted(chat) == chat.admin_active

\* if not chat.get("admin_active", False)
ShouldRespond(chat) == ~chat.admin_active

\* The history query and the list built from it.
ChatHistory(chat_id) ==
    LET recent_messages ==
            Take(SortByKey(MessagesOf(chat_id), "timestamp", FALSE),
                 HistoryLimit)
        but_last == SubSeq(recent_messages, 1, Len(recent_messages) - 1)
        rev == Reverse(but_last)
    IN [i \in 1..Len(rev) |-> [sender |-> rev[i].sender, content |-> rev[i].content]]

\* The part of the history that get_sebastian_ai_response puts in the
\* prompt as conversation context: chat_history[-6:].
PromptContext(chat_history) ==
    IF Len(chat_history) <= ContextLimit THEN chat_history
    ELSE SubSeq(chat_history, Len(chat_history) - ContextLimit + 1,
                Len(chat_history))

\* insert_one(message) by the request in slot p, whose record becomes r
InsertMessage(p, r, message) ==
    /\ messages' = Append(messages, message)
    /\ req' = [req EXCEPT ![p] = [r EXCEPT !.appended = Append(@, Len(messages) + 1)]]

\* --------------------------------------------------------- send_message
send_message_start(p) ==
    /\ CanStart(p)
    /\ \E user \in Tokens, chat_id \in ChatIdInputs, content \in Contents :
          Begin(p, [Idle EXCEPT !.op = "send_message", !.pc = "find_chat",
                                !.user = user, !.chat_id = chat_id,
                                !.content = content])
    /\ UNCHANGED <<users, chats, messages, files, toggled, clock, uuid>>

send_message_find(p) ==
    /\ req[p].op = "send_message" /\ req[p].pc = "find_chat"
    /\ LET r == req[p]
           chat == ChatById(r.chat_id)
       IN IF chat = None
          THEN /\ req' = [req EXCEPT ![p] = Finish(r, 404, None)]
               /\ UNCHANGED clock
          ELSE /\ clock' = clock + 1
               /\ req' = [req EXCEPT ![p].pc = "insert_user",
                                     ![p].chat = chat,
                                     ![p].obj = Message(r.chat_id, "user", r.content,
                                                        "text", <<>>, clock, FALSE)]
    /\ UNCHANGED <<users, chats, messages, files, toggled, uuid, nreq>>

send_message_insert(p) ==
    /\ req[p].op = "send_message" /\ req[p].pc = "insert_user"
    /\ InsertMessage(p, [req[p] EXCEPT !.pc = "update_chat", !.obj = None,
                                       !.now = clock],
                     req[p].obj)
    /\ clock' = clock + 1
    /\ UNCHANGED <<users, chats, files, toggled, uuid, nreq>>

send_message_update(p) ==
    /\ req[p].op = "send_message" /\ req[p].pc = "update_chat"
    /\ LET r == req[p]
       IN /\ chats' = UpdateOne(chats, "id", r.chat_id, "last_message_at", r.now)
          /\ IF ShouldRespond(r.chat)
             THEN req' = [req EXCEPT ![p].pc = "find_history", ![p].now = 0]
             ELSE req' = [req EXCEPT ![p] = Finish(r, 200, [success |-> TRUE])]
    /\ UNCHANGED <<users, messages, files, toggled, clock, uuid, nreq>>

send_message_history(p) ==
    /\ req[p].op = "send_message" /\ req[p].pc = "find_history"
    /\ req' = [req EXCEPT ![p].pc = "call_model",
                          ![p].chat_history = ChatHistory(req[p].chat_id)]
    /\ UNCHANGED <<users, chats, messages, files, toggled, clock, uuid, nreq>>

send_message_model(p) ==
    /\ req[p].op = "send_message" /\ req[p].pc = "call_model"
    /\ \E outcome \in Outcomes :
          LET r == req[p]
              sebastian_response ==
                  get_sebastian_ai_response(r.content, r.chat_history,
                                            r.image_url, outcome)
          IN req' = [req EXCEPT ![p].pc = "insert_bot",
                                ![p].chat_history = <<>>,
                                ![p].calls = @ + 1,
                                ![p].failed = (outcome # "ok"),
                                ![p].obj = Message(r.chat_id, "sebastian",
                                                   sebastian_response, "text", <<>>,
                                                   clock, FALSE)]
    /\ clock' = clock + 1
    /\ UNCHANGED <<users, chats, messages, files, toggled, uuid, nreq>>

send_message_reply(p) ==
    /\ req[p].op = "send_message" /\ req[p].pc = "insert_bot"
    /\ InsertMessage(p, Finish(req[p], 200, [success |-> TRUE]), req[p].obj)
    /\ UNCHANGED <<users, chats, files, toggled, clock, uuid, nreq>>

\* --------------------------------------------------------- upload_image
\* file.filename.split('.')[-1] if '.' in file.filename else 'jpg'
FileExtension(filename) ==
    IF \E i \in 1..Len(filename) : filename[i] = "."
    THEN IF filename[Len(filename)] = "." THEN "" ELSE filename[Len(filename)]
    ELSE "jpg"

\* The type check left out.
IsImage_Any(content_type) == TRUE

\* file.content_type.startswith('image/')
IsImage(content_type) == StartsWith(content_type, <<"image", "/">>)

\* The request arrives; the handler validates the type, names the file and
\* writes it.  Nothing else reads or writes UPLOADS_DIR, so the write is
\* taken in the same step.
upload_image_start(p) ==
    /\ CanStart(p)
    /\ \E user \in Tokens, chat_id \in ChatIdInputs, caption \in Captions,
          content_type \in MimeTypes, filename \in Filenames :
          LET r == [Idle EXCEPT !.op = "upload_image", !.pc = "find_chat",
                                !.user = user, !.chat_id = chat_id,
                                !.content = caption,
                                !.content_type = content_type]
              unique_filename == <<uuid + 1, ".", FileExtension(filename)>>
          IN IF ~IsImage(content_type)
             THEN /\ Begin(p, Finish(r, 400, None))
                  /\ UNCHANGED <<uuid, files>>
             ELSE /\ uuid' = uuid + 1
                  /\ files' = files \cup {unique_filename}
                  /\ Begin(p, [r EXCEPT !.image_url = <<"/uploads/">> \o unique_filename])
    /\ UNCHANGED <<users, chats, messages, toggled, clock>>

upload_image_find(p) ==
    /\ req[p].op = "upload_image" /\ req[p].pc = "find_chat"
    /\ LET r == req[p]
           chat == ChatById(r.chat_id)
       IN IF chat = None
          THEN /\ req' = [req EXCEPT ![p] = Finish(r, 404, None)]
               /\ UNCHANGED clock
          ELSE /\ clock' = clock + 1
               /\ req' = [req EXCEPT
                            ![p].pc = "insert_user",
                            ![p].chat = chat,
                            ![p].obj = Message(r.chat_id, "user",
                                               IF r.content # "" THEN r.content
                                               ELSE IMAGE_PLACEHOLDER,
                                               "image", r.image_url, clock, FALSE)]
    /\ UNCHANGED <<users, chats, messages, files, toggled, uuid, nreq>>

upload_image_insert(p) ==
    /\ req[p].op = "upload_image" /\ req[p].pc = "insert_user"
    /\ InsertMessage(p, [req[p] EXCEPT !.pc = "update_chat", !.obj = None,
                                       !.now = clock],
                     req[p].obj)
    /\ clock' = clock + 1
    /\ UNCHANGED <<users, chats, files, toggled, uuid, nreq>>

upload_image_update(p) ==
    /\ req[p].op = "upload_image" /\ req[p].pc = "update_chat"
    /\ LET r == req[p]
       IN /\ chats' = UpdateOne(chats, "id", r.chat_id, "last_message_at", r.now)
          /\ IF ShouldRespond(r.chat)
             THEN req' = [req EXCEPT ![p].pc = "find_history", ![p].now = 0]
             ELSE req' = [req EXCEPT ![p] =
                            Finish(r, 200, [success |-> TRUE,
                                            image_url |-> r.image_url])]
    /\ UNCHANGED <<users, messages, files, toggled, clock, uuid, nreq>>

upload_image_history(p) ==
    /\ req[p].op = "upload_image" /\ req[p].pc = "find_history"
    /\ req' = [req EXCEPT ![p].pc = "call_model",
                          ![p].chat_history = ChatHistory(req[p].chat_id)]
    /\ UNCHANGED <<users, chats, messages, files, toggled, clock, uuid, nreq>>

upload_image_model(p) ==
    /\ req[p].op = "upload_image" /\ req[p].pc = "call_model"
    /\ \E outcome \in Outcomes :
          LET r == req[p]
              image_prompt == <<"L'utente ha condiviso un'immagine">> \o
                              (IF r.content # ""
                               THEN <<" con la didascalia: ", r.content>> ELSE <<>>)
              sebastian_response ==
                  get_sebastian_ai_response(image_prompt, r.chat_history,
                                            r.image_url, outcome)
          IN req' = [req EXCEPT ![p].pc = "insert_bot",
                                ![p].chat_history = <<>>,
                                ![p].calls = @ + 1,
                                ![p].failed = (outcome # "ok"),
                                ![p].obj = Message(r.chat_id, "sebastian",
                                                   sebastian_response, "text", <<>>,
                                                   clock, FALSE)]
    /\ clock' = clock + 1
    /\ UNCHANGED <<users, chats, messages, files, toggled, uuid, nreq>>

upload_image_reply(p) ==
    /\ req[p].op = "upload_image" /\ req[p].pc = "insert_bot"
    /\ InsertMessage(p, Finish(req[p], 200, [success |-> TRUE,
                                             image_url |-> req[p].image_url]),
                     req[p].obj)
    /\ UNCHANGED <<users, chats, files, toggled, clock, uuid, nreq>>

\* -------------------------------------------------------- get_all_chats
get_all_chats_start(p) ==
    /\ CanStart(p)
    /\ \E user \in Tokens :
          LET r == [Idle EXCEPT !.op = "get_all_chats", !.pc = "find_chats",
                                !.user = user]
          IN IF ~user.is_admin THEN Begin(p, Finish(r, 403, None))
             ELSE Begin(p, r)
    /\ UNCHANGED <<users, chats, messages, files, toggled, clock, uuid>>

get_all_chats_find(p) ==
    /\ req[p].op = "get_all_chats" /\ req[p].pc = "find_chats"
    /\ req' = [req EXCEPT ![p] =
                 Finish(req[p], 200,
                        [items |-> Take(SortByKey(chats, "last_message_at", FALSE), ListCap)])]
    /\ UNCHANGED <<users, chats, messages, files, toggled, clock, uuid, nreq>>

\* -------------------------------------------------------- admin_respond
\* The operator's message without its is_admin_response flag.
AdminMessage_Unflagged(chat_id, content, now) ==
    Message(chat_id, "sebastian", content, "text", <<>>, now, FALSE)

\* The Message admin_respond builds.
AdminMessage(chat_id, content, now) ==
    Message(chat_id, "sebastian", content, "text", <<>>, now, TRUE)

\* admin_respond without the check of the token's admin flag.
admin_respond_start_NoCheck(p) ==
    /\ CanStart(p)
    /\ \E user \in Tokens, chat_id \in ChatIdInputs, content \in Contents :
          LET r == [Idle EXCEPT !.op = "admin_respond", !.pc = "insert_message",
                                !.user = user, !.chat_id = chat_id,
                                !.content = content]
          IN /\ clock' = clock + 1
             /\ Begin(p, [r EXCEPT !.obj = AdminMessage(chat_id, content, clock)])
    /\ UNCHANGED <<users, chats, messages, files, toggled, uuid>>

admin_respond_start(p) ==
    /\ CanStart(p)
    /\ \E user \in Tokens, chat_id \in ChatIdInputs, content \in Contents :
          LET r == [Idle EXCEPT !.op = "admin_respond", !.pc = "insert_message",
                                !.user = user, !.chat_id = chat_id,
                                !.content = content]
          IN IF ~user.is_admin
             THEN /\ Begin(p, Finish(r, 403, None))
                  /\ UNCHANGED clock
             ELSE /\ clock' = clock + 1
                  /\ Begin(p, [r EXCEPT !.obj = AdminMessage(chat_id, content, clock)])
    /\ UNCHANGED <<users, chats, messages, files, toggled, uuid>>

admin_respond_insert(p) ==
    /\ req[p].op = "admin_respond" /\ req[p].pc = "insert_message"
    /\ InsertMessage(p, [req[p] EXCEPT !.pc = "update_chat", !.obj = None,
                                       !.now = clock],
                     req[p].obj)
    /\ clock' = clock + 1
    /\ UNCHANGED <<users, chats, files, toggled, uuid, nreq>>

\* admin_respond that also takes the chat over when the operator replies.
admin_respond_update_TakesOver(p) ==
    /\ req[p].op = "admin_respond" /\ req[p].pc = "update_chat"
    /\ LET r == req[p]
       IN /\ chats' = UpdateOne(UpdateOne(chats, "id", r.chat_id,
                                          "last_message_at", r.now),
                                "id", r.chat_id, "admin_active", TRUE)
          /\ req' = [req EXCEPT ![p] = Finish(r, 200, [success |-> TRUE])]
    /\ UNCHANGED <<users, messages, files, toggled, clock, uuid, nreq>>

admin_respond_update(p) ==
    /\ req[p].op = "admin_respond" /\ req[p].pc = "update_chat"
    /\ LET r == req[p]
       IN /\ chats' = UpdateOne(chats, "id", r.chat_id, "last_message_at", r.now)
          /\ req' = [req EXCEPT ![p] = Finish(r, 200, [success |-> TRUE])]
    /\ UNCHANGED <<users, messages, files, toggled, clock, uuid, nreq>>

\* -------------------------------------------------- toggle_admin_active
toggle_admin_active_start(p) ==
    /\ CanStart(p)
    /\ \E user \in Tokens, chat_id \in ChatIdInputs :
          LET r == [Idle EXCEPT !.op = "toggle_admin_active", !.pc = "find_chat",
                                !.user = user, !.chat_id = chat_id]
          IN IF ~user.is_admin THEN Begin(p, Finish(r, 403, None))
             ELSE Begin(p, r)
    /\ UNCHANGED <<users, chats, messages, files, toggled, clock, uuid>>

toggle_admin_active_find(p) ==
    /\ req[p].op = "toggle_admin_active" /\ req[p].pc = "find_chat"
    /\ LET r == req[p]
           chat == ChatById(r.chat_id)
       IN IF chat = None
          THEN req' = [req EXCEPT ![p] = Finish(r, 404, None)]
          ELSE req' = [req EXCEPT ![p].pc = "update_chat",
                                  ![p].obj = [new_status |-> ~chat.admin_active]]
    /\ UNCHANGED <<users, chats, messages, files, toggled, clock, uuid, nreq>>

toggle_admin_active_update(p) ==
    /\ req[p].op = "toggle_admin_active" /\ req[p].pc = "update_chat"
    /\ LET r == req[p]
           new_status == r.obj.new_status
       IN /\ chats' = UpdateOne(chats, "id", r.chat_id, "admin_active", new_status)
          /\ toggled' = Append(toggled, r.chat_id)
          /\ req' = [q \in Procs |->
                       IF q = p THEN Finish(r, 200, [admin_active |-> new_status])
                       ELSE IF ~new_status /\ InFlight(q) /\ OnChat(req[q], r.chat_id)
                            THEN [req[q] EXCEPT !.active_all = FALSE]
                            ELSE req[q]]
    /\ UNCHANGED <<users, messages, files, clock, uuid, nreq>>

\* ------------------------------------------------- the conversation side
\* The store after alice registered, the administrator logged in and alice
\* fetched her chat: SpecAuth reaches the two User documents, and three
\* steps of get_or_create_chat add the Chat document.
Init ==
    /\ users = <<User(1, "alice", hash_password("pw1"), FALSE),
                 User(2, ADMIN_USERNAME, hash_password(ADMIN_PASSWORD), TRUE)>>
    /\ chats = <<Chat(3, 1, "alice", 1)>>
    /\ messages = <<>>
    /\ files = {}
    /\ toggled = <<>>
    /\ clock = 2
    /\ uuid = 3
    /\ req = [p \in Procs |-> Idle]
    /\ nreq = 0

Next ==
    \E p \in Procs :
        \/ get_or_create_chat_start(p)
        \/ get_or_create_chat_find(p)
        \/ get_or_create_chat_user(p)
        \/ get_or_create_chat_insert(p)
        \/ get_messages_start(p)
        \/ get_messages_find(p)
        \/ send_message_start(p)
        \/ send_message_find(p)
        \/ send_message_insert(p)
        \/ send_message_update(p)
        \/ send_message_history(p)
        \/ send_message_model(p)
        \/ send_message_reply(p)
        \/ upload_image_start(p)
        \/ upload_image_find(p)
        \/ upload_image_insert(p)
        \/ upload_image_update(p)
        \/ upload_image_history(p)
        \/ upload_image_model(p)
        \/ upload_image_reply(p)
        \/ get_all_chats_start(p)
        \/ get_all_chats_find(p)
        \/ admin_respond_start(p)
        \/ admin_respond_insert(p)
        \/ admin_respond_update(p)
        \/ toggle_admin_active_start(p)
        \/ toggle_admin_active_find(p)
        \/ toggle_admin_active_update(p)

Spec == Init /\ [][Next]_vars

\* ------------------------------------------- the credential store alone
InitAuth ==
    /\ users = <<>>
    /\ chats = <<>>
    /\ messages = <<>>
    /\ files = {}
    /\ toggled = <<>>
    /\ clock = 1
    /\ uuid = 0
    /\ req = [p \in Procs |-> Idle]
    /\ nreq = 0

NextAuth ==
    \E p \in Procs :
        \/ register_start(p)
        \/ register_find(p)
        \/ register_insert(p)
        \/ login_start(p)
        \/ login_find(p)
        \/ admin_login_start(p)
        \/ admin_login_find(p)
        \/ admin_login_insert(p)

SpecAuth == InitAuth /\ [][NextAuth]_vars

\* ============================================================ properties
Done(p) == req[p].pc = "done"

UserRequest(r) == r.op \in {"send_message", "upload_image"}

\* The content of the user message a send_message or upload_image stores.
StoredContent(r) ==
    IF r.op = "upload_image" /\ r.content = "" THEN IMAGE_PLACEHOLDER ELSE r.content

IsAiMessage(m) == m.sender = "sebastian" /\ ~m.is_admin_response

\* The positions of db.messages that the step under way fills.
NewPositions == (Len(messages) + 1)..Len(messages')

\* C1: a successful send_message or upload_image on a chat that is
\* Human-Operated from the arrival of the request to its end has stored
\* exactly one message, the user's, and has not called the hosted model.
C1_HumanOperatedNoReply ==
    \A p \in Procs :
        LET r == req[p]
        IN (Done(p) /\ UserRequest(r) /\ r.status = 200 /\ r.active_all)
           => /\ Len(r.appended) = 1
              /\ messages[r.appended[1]].sender = "user"
              /\ messages[r.appended[1]].content = StoredContent(r)
              /\ messages[r.appended[1]].chat_id = r.chat_id
              /\ r.calls = 0

\* A send_message completed on a chat that stayed Human-Operated.
C1_Witness ==
    \E p \in Procs :
        /\ Done(p) /\ req[p].op = "send_message"
        /\ req[p].status = 200 /\ req[p].active_all
        /\ Len(req[p].appended) = 1

\* C2: no step inserts an AI-generated message (sender "sebastian",
\* is_admin_response false) into a chat whose stored admin_active flag is
\* true at that moment.
C2_NoAiReplyWhileHumanOperated ==
    [][\A i \in NewPositions :
          IsAiMessage(messages'[i])
          => LET chat == ChatById(messages'[i].chat_id)
             IN chat # None /\ ~chat.admin_active]_vars

\* C3: a successful send_message on a chat that is Automatic when the
\* request arrives, with no other request on that chat from then on, has
\* stored the user's message and then one AI reply; get_messages lists the
\* two in that order after what the chat held before, and lists exactly
\* the two on a chat that held nothing.
C3_AutomaticSendAppendsPair ==
    \A p \in Procs :
        LET r == req[p]
            listing == get_messages(r.chat_id)
        IN (Done(p) /\ r.op = "send_message" /\ r.status = 200
                    /\ r.auto_start /\ r.solo)
           => /\ Len(r.appended) = 2
              /\ r.appended[1] < r.appended[2]
              /\ Len(listing) = r.pre + 2
              /\ listing[r.pre + 1] = messages[r.appended[1]]
              /\ listing[r.pre + 2] = messages[r.appended[2]]
              /\ listing[r.pre + 1].sender = "user"
              /\ listing[r.pre + 1].content = r.content
              /\ IsAiMessage(listing[r.pre + 2])
              /\ r.calls = 1

\* A send_message alone on a fresh Automatic chat has completed.
C3_Witness ==
    \E p \in Procs :
        /\ Done(p) /\ req[p].op = "send_message" /\ req[p].status = 200
        /\ req[p].auto_start /\ req[p].solo /\ req[p].pre = 0
        /\ Len(get_messages(req[p].chat_id)) = 2

\* C4: once the hosted model has failed for a request, the model has been
\* called exactly once for it, the reply built and then stored is the
\* fallback text under sender "sebastian", and the request ends with
\* status 200.
C4_ModelFailureFallsBack ==
    \A p \in Procs :
        LET r == req[p]
        IN (UserRequest(r) /\ r.failed)
           => /\ r.calls = 1
              /\ r.pc \in {"insert_bot", "done"}
              /\ r.pc = "insert_bot"
                 => r.obj.sender = "sebastian" /\ r.obj.content = FALLBACK
              /\ r.pc = "done"
                 => /\ r.status = 200
                    /\ Len(r.appended) = 2
                    /\ messages[r.appended[2]].sender = "sebastian"
                    /\ messages[r.appended[2]].content = FALLBACK
                    /\ ~messages[r.appended[2]].is_admin_response

\* A request whose model call failed has completed.
C4_Witness ==
    \E p \in Procs :
        /\ Done(p) /\ UserRequest(req[p]) /\ req[p].failed
        /\ req[p].status = 200

IsSortedByTimestamp(s) ==
    \A i \in 1..(Len(s) - 1) : s[i].timestamp <= s[i + 1].timestamp

\* C5: for every chat id, what get_messages returns is in non-decreasing
\* timestamp order and holds exactly the chat's stored messages, whatever
\* order they were inserted in; so is every listing a request returned.
C5_ListingInTimestampOrder ==
    /\ \A c \in ChatIdInputs :
          LET listing == get_messages(c)
          IN /\ IsSortedByTimestamp(listing)
             /\ Len(listing) = Len(MessagesOf(c))
             /\ \A i \in 1..Len(listing) :
                   \E j \in 1..Len(messages) : messages[j] = listing[i]
    /\ \A p \in Procs :
          (Done(p) /\ req[p].op = "get_messages" /\ req[p].status = 200)
          => IsSortedByTimestamp(req[p].ret.items)

\* A chat whose messages were inserted in another order than their
\* timestamps.
C5_Witness ==
    \E c \in ChatIdInputs :
        /\ Len(MessagesOf(c)) >= 2
        /\ ~IsSortedByTimestamp(MessagesOf(c))

\* C6: the store holds at most one Chat per user_id, and the
\* get_or_create_chat requests of one user all return the same Chat id.
C6_OneChatPerUser ==
    /\ \A i, j \in 1..Len(chats) :
          chats[i].user_id = chats[j].user_id => i = j
    /\ \A p, q \in Procs :
          (/\ Done(p) /\ req[p].op = "get_or_create_chat" /\ req[p].status = 200
           /\ Done(q) /\ req[q].op = "get_or_create_chat" /\ req[q].status = 200
           /\ req[p].user.user_id = req[q].user.user_id)
          => req[p].ret.id = req[q].ret.id

\* C7: no two User documents share a username, and a register request
\* that fails with status 400 has created no document.
C7_UsernamesUnique ==
    /\ \A i, j \in 1..Len(users) :
          users[i].username = users[j].username => i = j
    /\ \A p \in Procs :
          (Done(p) /\ req[p].op = "register" /\ req[p].status = 400)
          => req[p].created = 0

\* C8: at most one User document has is_admin true, and the successful
\* admin_login requests all return a token with admin flag true and the
\* same user id.
C8_AdminCreatedOnce ==
    /\ Cardinality({i \in 1..Len(users) : users[i].is_admin}) <= 1
    /\ \A p, q \in Procs :
          (/\ Done(p) /\ req[p].op = "admin_login" /\ req[p].status = 200
           /\ Done(q) /\ req[q].op = "admin_login" /\ req[q].status = 200)
          => /\ req[p].ret.is_admin
             /\ req[p].ret.user_id = req[q].ret.user_id

\* The toggle_admin_active requests completed on a chat.
ToggleCount(chat_id) ==
    Cardinality({i \in 1..Len(toggled) : toggled[i] = chat_id})

ToggleInFlight(chat_id) ==
    \E p \in Procs :
        /\ InFlight(p) /\ req[p].op = "toggle_admin_active"
        /\ req[p].chat_id = chat_id

\* C9: when two toggle_admin_active requests have completed on a chat
\* (and none is under way), the chat's admin_active flag has the value it
\* had before the first, which is the initial false; when one has
\* completed, the flag is the value that request returned.
C9_DoubleToggleRestores ==
    \A i \in 1..Len(chats) :
        LET chat == chats[i]
        IN (~ToggleInFlight(chat.id))
           => /\ ToggleCount(chat.id) = 2 => ~chat.admin_active
              /\ ToggleCount(chat.id) = 1
                 => \A p \in Procs :
                       (/\ Done(p) /\ req[p].op = "toggle_admin_active"
                        /\ req[p].status = 200 /\ req[p].chat_id = chat.id)
                       => req[p].ret.admin_active = chat.admin_active

\* C10: an admin_respond request of a caller whose token has the admin
\* flag ends with status 200 and has stored exactly one message, with
\* sender "sebastian", the given content and is_admin_response true,
\* whatever the chat's handoff state; and every message stored with
\* is_admin_response true is stored by a step of admin_respond.
C10_AdminRespond ==
    /\ [](\A p \in Procs :
            LET r == req[p]
            IN (Done(p) /\ r.op = "admin_respond" /\ r.user.is_admin)
               => /\ r.status = 200
                  /\ Len(r.appended) = 1
                  /\ messages[r.appended[1]].sender = "sebastian"
                  /\ messages[r.appended[1]].content = r.content
                  /\ messages[r.appended[1]].chat_id = r.chat_id
                  /\ messages[r.appended[1]].is_admin_response)
    /\ [][\A i \in NewPositions :
             messages'[i].is_admin_response
             => \E p \in Procs :
                   /\ req[p].op = "admin_respond"
                   /\ req'[p].appended = Append(req[p].appended, i)]_vars

\* An operator reply stored in a chat that is Human-Operated.
C10_Witness ==
    \E p \in Procs :
        /\ Done(p) /\ req[p].op = "admin_respond" /\ req[p].status = 200
        /\ Len(req[p].appended) = 1
        /\ LET chat == ChatById(req[p].chat_id)
           IN chat # None /\ chat.admin_active

\* C11: every stored Message has the chat_id of a stored Chat, and every
\* stored Chat has the user_id of a stored User.
C11_ReferentialIntegrity ==
    /\ \A i \in 1..Len(messages) : ChatById(messages[i].chat_id) # None
    /\ \A i \in 1..Len(chats) : FindOne(users, "id", chats[i].user_id) # None

\* The upload file, if any, that the request r named and wrote.
FileOf(r) == {f \in files : <<"/uploads/">> \o f = r.image_url}

\* The request in slot p arrives in the step under way.
Arrives(p) == CanStart(p) /\ nreq' = nreq + 1

\* The request r declares a MIME type that begins with "image/".
DeclaresImage(r) ==
    /\ Len(r.content_type) >= 2
    /\ r.content_type[1] = "image" /\ r.content_type[2] = "/"

\* C12: an upload_image whose declared MIME type is no image type ends
\* with status 400 in the step it arrives in, which leaves the upload
\* directory and the messages as they were; one whose type is an image
\* type ends with status 200 when the chat exists (404 only when no such
\* chat is stored) and has then stored a user message with message_type
\* "image", the non-empty image_url of a written file, and the caption, or
\* the placeholder for an empty caption, as content.
C12_UploadValidation ==
    /\ [](\A p \in Procs :
            LET r == req[p]
            IN (r.op = "upload_image" /\ ~DeclaresImage(r))
               => /\ Done(p) /\ r.status = 400
                  /\ r.appended = <<>>
                  /\ FileOf(r) = {})
    /\ [](\A p \in Procs :
            LET r == req[p]
            IN (Done(p) /\ r.op = "upload_image" /\ DeclaresImage(r))
               => /\ r.status \in {200, 404}
                  /\ r.status = 404 => ChatById(r.chat_id) = None
                  /\ r.status = 200
                     => /\ Len(r.appended) >= 1
                        /\ messages[r.appended[1]].sender = "user"
                        /\ messages[r.appended[1]].message_type = "image"
                        /\ messages[r.appended[1]].image_url # <<>>
                        /\ messages[r.appended[1]].image_url = r.image_url
                        /\ FileOf(r) # {}
                        /\ messages[r.appended[1]].content =
                              (IF r.content = "" THEN IMAGE_PLACEHOLDER
                               ELSE r.content))
    /\ [][\A p \in Procs :
             (/\ Arrives(p) /\ req'[p].op = "upload_image"
              /\ ~DeclaresImage(req'[p]))
             => files' = files /\ messages' = messages]_vars

\* A rejected text/plain upload, and a stored image with no caption.
C12_Witness ==
    /\ \E p \in Procs :
          /\ Done(p) /\ req[p].op = "upload_image" /\ req[p].status = 400
          /\ req[p].content_type = <<"text", "/", "plain">>
    /\ \E p \in Procs :
          /\ Done(p) /\ req[p].op = "upload_image" /\ req[p].status = 200
          /\ req[p].content = ""
          /\ messages[req[p].appended[1]].content = IMAGE_PLACEHOLDER

\* The messages of the chat that precede, by timestamp, the user message
\* the request r has stored, oldest first, as the history gives them.
PrecedingMessages(r) ==
    LET mine == messages[r.appended[1]]
        all == SortByKey(MessagesOf(r.chat_id), "timestamp", TRUE)
        older == {i \in 1..Len(all) : all[i].timestamp < mine.timestamp}
        seq == InOrder(all, older)
    IN [i \in 1..Len(seq) |-> [sender |-> seq[i].sender, content |-> seq[i].content]]

\* C13: the conversation context the handler gives the model is the
\* ContextLimit most recent messages preceding the user message just stored
\* (all of them when there are fewer), oldest first, without that message.
\* Stated for a request that has the chat to itself, so that no message of
\* another request arrives between the insert and the history query.
C13_ContextIsPrecedingMessages ==
    [][\A p \in Procs :
          (/\ UserRequest(req[p]) /\ req[p].solo
           /\ req[p].pc = "find_history" /\ req'[p].pc = "call_model")
          => PromptContext(req'[p].chat_history)
             = PromptContext(PrecedingMessages(req[p]))]_vars

Quiescent == \A p \in Procs : ~InFlight(p)

\* C14: when no request is in progress, the last_message_at of every chat
\* is not earlier than the timestamp of any message stored for that chat.
\* Stated for the runs of one request, where nothing is interleaved.
C14_LastMessageAtCoversMessages ==
    (Quiescent /\ nreq <= 1)
    => \A i \in 1..Len(messages) :
          LET chat == ChatById(messages[i].chat_id)
          IN chat # None => chat.last_message_at >= messages[i].timestamp

\* C15: a Chat document is stored with admin_active false, and a step
\* changes the admin_active of a stored chat only when it is the update of
\* a toggle_admin_active request of an admin caller on that very chat,
\* which ends with status 200 and returns the new value; no chat is
\* removed or renumbered.
C15_OnlyToggleChangesHandoff ==
    [][/\ Len(chats') >= Len(chats)
       /\ \A i \in 1..Len(chats') :
             IF i > Len(chats) THEN ~chats'[i].admin_active
             ELSE /\ chats'[i].id = chats[i].id
                  /\ chats'[i].admin_active # chats[i].admin_active
                     => \E p \in Procs :
                           /\ req[p].op = "toggle_admin_active"
                           /\ req[p].pc = "update_chat"
                           /\ req[p].user.is_admin
                           /\ req[p].chat_id = chats[i].id
                           /\ req'[p].pc = "done" /\ req'[p].status = 200
                           /\ req'[p].ret.admin_active = chats'[i].admin_active]_vars

\* A toggle has made one chat Human-Operated and left another Automatic.
C15_Witness ==
    /\ toggled # <<>>
    /\ \E i, j \in 1..Len(chats) :
          chats[i].admin_active /\ ~chats[j].admin_active

AdminRoutes == {"get_all_chats", "admin_respond", "toggle_admin_active"}

\* C16: a get_all_chats, admin_respond or toggle_admin_active request whose
\* token has admin flag false ends with status 403 in the step it arrives
\* in, returns nothing, stores no message, and that step leaves users,
\* chats and messages as they were.
C16_NonAdminRejected ==
    /\ [](\A p \in Procs :
            LET r == req[p]
            IN (r.op \in AdminRoutes /\ ~r.user.is_admin)
               => /\ Done(p) /\ r.status = 403
                  /\ r.ret = None
                  /\ r.appended = <<>>)
    /\ [][\A p \in Procs :
             (/\ Arrives(p) /\ req'[p].op \in AdminRoutes
              /\ ~req'[p].user.is_admin)
             => users' = users /\ chats' = chats /\ messages' = messages]_vars

\* A non-admin caller was refused an operator reply on a stored chat.
C16_Witness ==
    \E p \in Procs :
        /\ Done(p) /\ req[p].op = "admin_respond" /\ ~req[p].user.is_admin
        /\ req[p].status = 403
        /\ ChatById(req[p].chat_id) # None

\* C17: a send_message, upload_image or toggle_admin_active request that
\* ended with status 404 has stored no message and has left no file of
\* its own in the upload directory, and no stored chat has its chat id.
C17_NotFoundLeavesNoTrace ==
    \A p \in Procs :
        LET r == req[p]
        IN (/\ Done(p) /\ r.status = 404
            /\ r.op \in {"send_message", "upload_image", "toggle_admin_active"})
           => /\ ChatById(r.chat_id) = None
              /\ r.appended = <<>>
              /\ FileOf(r) = {}

AuthRoutes == {"register", "login", "admin_login"}

\* C18: a register, login or admin_login request that was issued a token
\* with admin flag true presented the reserved username and the reserved
\* password; so without the reserved password no token has the flag, also
\* not the token of a user registered under the username "admin".
C18_AdminTokenNeedsReservedPair ==
    \A p \in Procs :
        LET r == req[p]
        IN (Done(p) /\ r.op \in AuthRoutes /\ r.status = 200)
           => /\ r.ret.is_admin
                 => r.username = ADMIN_USERNAME /\ r.password = ADMIN_PASSWORD
              /\ r.op = "register" => ~r.ret.is_admin

\* A user registered as "admin" without the reserved password has logged
\* in and holds a token without the admin flag.
C18_Witness ==
    /\ \E i \in 1..Len(users) :
          users[i].username = ADMIN_USERNAME /\ ~users[i].is_admin
    /\ \E p \in Procs :
          /\ Done(p) /\ req[p].op = "login" /\ req[p].status = 200
          /\ req[p].username = ADMIN_USERNAME
          /\ req[p].password # ADMIN_PASSWORD
          /\ ~req[p].ret.is_admin

\* C19: a finished get_messages, send_message or upload_image whose token
\* has admin flag false and whose chat belongs to another user has returned
\* none of that chat's messages and has added no message to it.
C19_OwnChatOnly ==
    \A p \in Procs :
        LET r == req[p]
            chat == ChatById(r.chat_id)
        IN (/\ Done(p) /\ ~r.user.is_admin
            /\ r.op \in {"get_messages", "send_message", "upload_image"}
            /\ chat # None /\ chat.user_id # r.user.user_id)
           => /\ r.appended = <<>>
              /\ r.op = "get_messages" /\ r.status = 200 => r.ret.items = <<>>

====
